---- MODULE Spec2Model ----
(***************************************************************************)
(* Task orchestration core of Shinobu-VoiceTranslator.                     *)
(*                                                                         *)
(* The model follows app/services/base_service.py (BaseService), the       *)
(* concrete services built on it (BilibiliService, YouTubeService,         *)
(* UnifiedDownloadService, TranscriptionService), the Task entity and the  *)
(* SQLite task store, a table of rows keyed by id                          *)
(* (DatabaseService).  Every handler of the owning (GUI) thread is one     *)
(* action; what an observer connected to a signal sees while the signal is *)
(* emitted is recorded in the event itself (the task object, the stored    *)
(* row and the in-flight map as they are at the moment of the emit).       *)
(***************************************************************************)
EXTENDS Integers, Sequences, FiniteSets, TLC

(* ------------------------------ bounds --------------------------------- *)
MaxRuns == 2
MaxClock == 1
MaxDbFailures == 1

\* The model follows one task: every handler reads and writes only the Task it
\* is given and the dictionary entries under that task's id.
TaskIds == {"t1"}
Runs == 1..MaxRuns
Clock == 0..MaxClock

(* ------------------------- program vocabulary -------------------------- *)
Services == {"bilibili", "youtube", "transcribe"}

\* TaskStatus: the enum members; StatusValue is Enum.value
TaskStatus == {"PENDING", "RUNNING", "SUCCESS", "FAILED", "CANCELLED", "PAUSED"}

StatusValue(st) ==
    CASE st = "PENDING" -> "pending"
      [] st = "RUNNING" -> "running"
      [] st = "SUCCESS" -> "success"
      [] st = "FAILED" -> "failed"
      [] st = "CANCELLED" -> "cancelled"
      [] st = "PAUSED" -> "paused"

\* TaskStatus(value): the member whose value is v
StatusOfValue(v) == CHOOSE st \in TaskStatus : StatusValue(st) = v

Terminal == {"SUCCESS", "FAILED", "CANCELLED"}

\* datetime values are clock readings; None is NoTime
NoTime == -1

\* datetime.isoformat() / SQL NULL, and datetime.fromisoformat()
IsoFormat(d) == IF d = NoTime THEN "NULL" ELSE ToString(d)
FromIsoFormat(s) == IF s = "NULL" THEN NoTime ELSE CHOOSE d \in Clock : ToString(d) = s

\* the exceptions a job function can raise, as the FutureFailed its Future's
\* failed signal carries; str(error.exception) is the exception's message
ErrMsgs == {"no such video"}
FutureFailed == {[cls |-> "FutureFailed", exception |-> [cls |-> "FileNotFoundError", msg |-> m]] : m \in ErrMsgs}
Str(e) == IF e.cls = "FutureFailed" THEN "FutureFailed: " \o e.exception.msg ELSE e.msg

\* the path a job returns, a progress value a job reports
OutPath == "/out/file.mp4"
SrtPath == "/out/file.srt"
ProgressVals == {50}

\* _onWorkerFinished's third argument on success: the (Chinese) literal of each
\* caller, written here in English
DownloadDoneMsg == "download finished"
TranscribeDoneMsg == "transcription finished"
TranscribeSkippedMsg == "task finished (transcription skipped)"

(* --------------------------- createTask inputs ------------------------- *)
\* A string is the sequence of its pieces; "x in url" is a test on the pieces.
Urls ==
    { <<>>,
      <<"BV", "1xx411c7mD">>,
      <<"https://www.", "bilibili.com", "/video/", "BV", "1xx411c7mD">>,
      <<"https://www.", "youtube.com", "/watch?v=", "dQw4w9WgXcQ">>,
      <<"https://", "youtu.be", "/", "BV", "dQw4w9WgX">>,
      <<"https://", "example.com", "/a.mp4">> }

\* the pieces that match [\w]+
WordPieces == {"1xx411c7mD", "dQw4w9WgXcQ", "dQw4w9WgX"}

\* "piece in url"
In(piece, url) == \E i \in 1..Len(url) : url[i] = piece

\* the paths transcriptionService.createTask is given, and the files that exist
InputPaths == {<<"a.mp4">>, <<"missing.mp4">>}
Files == {<<"a.mp4">>}

\* the keywords Task(...) accepts: the fields of the dataclass
TaskFields ==
    {"id", "type", "status", "name", "fileName", "description", "url", "inputPath",
     "outputPath", "outputPaths", "logFile", "progress", "speed", "eta", "currentStep",
     "totalSteps", "currentStepIndex", "fileSize", "duration", "createTime", "startTime",
     "endTime", "updateTime", "errorMsg", "errorCode", "retryCount", "maxRetry", "config",
     "metadata", "tags", "category", "priority"}

\* the keywords each createTask passes to Task(...)
BilibiliTaskKeywords == {"type", "status", "url", "source", "fileName", "extraParams"}
YouTubeTaskKeywords == {"type", "status", "url", "source", "fileName", "config"}

(* ------------------------------ state ---------------------------------- *)
VARIABLES
    now,        \* the wall clock read by datetime.now()
    available,  \* service -> _available (set once in __init__)
    tasks,      \* task id -> the Task object held by the GUI and the service
    db,         \* table tasks of data/tasks.db: its rows, each <<id, columns>>
    futures,    \* service -> (task id -> Future), BaseService.futures
    jobs,       \* <<task id, run>> -> the job submitted by asyncRun and its Future
    dbFailures, \* how many writes to the store have raised so far
    last,       \* what the most recent handler did (return value, emits, saves)
    sql         \* the AsyncDatabaseWorker threads, DatabaseService._active_workers
                \* and the slot calls queued for the owning thread

vars == <<now, available, tasks, db, futures, jobs, dbFailures, last, sql>>

\* the workers sqlRequest can create
WorkerIds == {"w1", "w2"}

\* no sqlRequest has been made
NoSql ==
    [pc |-> [w \in WorkerIds |-> "none"],
     outcome |-> [w \in WorkerIds |-> ""],
     _is_running |-> [w \in WorkerIds |-> TRUE],
     _active_workers |-> <<>>,
     queue |-> <<>>,
     delivered |-> [w \in WorkerIds |-> 0],
     stopped |-> [w \in WorkerIds |-> FALSE],
     late |-> [w \in WorkerIds |-> FALSE]]

(* ------------------------------- json ---------------------------------- *)
\* Python values of the JSON-shaped fields: a dict is the sequence of its
\* <<key, value>> items, a list the sequence of its elements
PyDict(items) == [py |-> "dict", items |-> items]
PyList(items) == [py |-> "list", items |-> items]

\* d[key] = value
DictSet(d, key, value) ==
    IF \E i \in 1..Len(d.items) : d.items[i][1] = key
    THEN PyDict([i \in 1..Len(d.items) |->
                    IF d.items[i][1] = key THEN <<key, value>> ELSE d.items[i]])
    ELSE PyDict(Append(d.items, <<key, value>>))

\* d.get(key, default)
DictGet(d, key, default) ==
    LET I == {i \in 1..Len(d.items) : d.items[i][1] = key}
    IN  IF I = {} THEN default ELSE d.items[CHOOSE i \in I : TRUE][2]

RECURSIVE DumpItems(_)
DumpItems(items) ==
    IF items = <<>> THEN <<>>
    ELSE <<items[1][1], ":", items[1][2]>> \o DumpItems(Tail(items))

\* json.dumps: the text, as the sequence of its tokens
json_dumps(v) ==
    IF v.py = "dict" THEN <<"{">> \o DumpItems(v.items) \o <<"}">>
    ELSE <<"[">> \o v.items \o <<"]">>

\* json.loads; JSONDecodeError is the value [py |-> "error"]
json_loads(text) ==
    LET n == Len(text)
    IN  IF n >= 2 /\ text[1] = "[" /\ text[n] = "]"
        THEN PyList(SubSeq(text, 2, n - 1))
        ELSE IF /\ n >= 2 /\ text[1] = "{" /\ text[n] = "}"
                /\ (n - 2) % 3 = 0
                /\ \A i \in 1..((n - 2) \div 3) : text[3 * i] = ":"
        THEN PyDict([i \in 1..((n - 2) \div 3) |-> <<text[3 * i - 1], text[3 * i + 1]>>])
        ELSE [py |-> "error"]

\* _row_to_task on a JSON column: an empty or NULL text and a text that
\* json.loads rejects give the default
JsonField(text, default) ==
    IF text = <<>> THEN default
    ELSE IF json_loads(text).py = "error" THEN default
    ELSE json_loads(text)

(* --------------------------- Task entity ------------------------------- *)
\* Task(...) as the services construct it; task.source is kept in metadata
NewTask(type, src) ==
    [type |-> type, status |-> "PENDING", progress |-> 0,
     errorMsg |-> "", startTime |-> NoTime, endTime |-> NoTime, outputPath |-> "",
     outputPaths |-> PyList(<<>>), config |-> PyDict(<<>>),
     metadata |-> IF src = "" THEN PyDict(<<>>) ELSE PyDict(<<<<"source", src>>>>),
     tags |-> PyList(<<>>)]

\* the property Task.source
source(task) == DictGet(task.metadata, "source", "")

\* Task.toDict: the row written by save_task
toDict(task) ==
    [type |-> task.type, status |-> StatusValue(task.status),
     progress |-> task.progress, errorMsg |-> task.errorMsg,
     startTime |-> IsoFormat(task.startTime), endTime |-> IsoFormat(task.endTime),
     outputPath |-> task.outputPath,
     outputPaths |-> json_dumps(task.outputPaths), config |-> json_dumps(task.config),
     metadata |-> json_dumps(task.metadata), tags |-> json_dumps(task.tags)]

\* _row_to_task that leaves the JSON columns at their defaults
_row_to_task_NoJson(row) ==
    [type |-> row.type, status |-> StatusOfValue(row.status),
     progress |-> row.progress, errorMsg |-> row.errorMsg,
     startTime |-> FromIsoFormat(row.startTime), endTime |-> FromIsoFormat(row.endTime),
     outputPath |-> row.outputPath,
     outputPaths |-> PyList(<<>>), config |-> PyDict(<<>>),
     metadata |-> JsonField(row.metadata, PyDict(<<>>)), tags |-> PyList(<<>>)]

\* DatabaseService._row_to_task followed by Task.__post_init__
_row_to_task(row) ==
    [type |-> row.type, status |-> StatusOfValue(row.status),
     progress |-> row.progress, errorMsg |-> row.errorMsg,
     startTime |-> FromIsoFormat(row.startTime), endTime |-> FromIsoFormat(row.endTime),
     outputPath |-> row.outputPath,
     outputPaths |-> JsonField(row.outputPaths, PyList(<<>>)),
     config |-> JsonField(row.config, PyDict(<<>>)),
     metadata |-> JsonField(row.metadata, PyDict(<<>>)),
     tags |-> JsonField(row.tags, PyList(<<>>))]

\* the service that owns a task: TaskInterface.SERVICE_MAP by type, then
\* UnifiedDownloadService by task.source
ServiceOf(task) == IF task.type = "transcribe" THEN "transcribe" ELSE source(task)

NullRow == toDict(NewTask("", ""))

(* ------------------------ dictionaries --------------------------------- *)
Put(f, k, v) == (k :> v) @@ f
Del(f, k) == [x \in (DOMAIN f) \ {k} |-> f[x]]

\* rows left in data/tasks.db by an earlier session: one failed task of a service
PreloadRows ==
    { toDict([NewTask(IF s = "transcribe" THEN "transcribe" ELSE "download",
                      IF s = "transcribe" THEN "" ELSE s)
              EXCEPT !.status = "FAILED", !.errorMsg = "network error",
                     !.startTime = 0, !.endTime = 0]) : s \in Services }

(* ---------------------------- table tasks ------------------------------ *)
\* the ids that have a row in the table
Ids(table) == {p[1] : p \in table}

\* DatabaseService.get_task: SELECT * FROM tasks WHERE id = ?, fetchone()
Row(table, k) == (CHOOSE p \in table : p[1] = k)[2]

\* the Task get_task returns, or None (found = FALSE)
get_task(table, k) ==
    IF k \in Ids(table) THEN [found |-> TRUE, task |-> _row_to_task(Row(table, k))]
    ELSE [found |-> FALSE]

\* an INSERT into a table whose id column is no key
InsertOrReplace_PlainInsert(table, k, row) == table \cup {<<k, row>>}

\* INSERT OR REPLACE INTO tasks: id is PRIMARY KEY, so the row that has the
\* same id is deleted before the new one is inserted
InsertOrReplace(table, k, row) == {p \in table : p[1] # k} \cup {<<k, row>>}

\* DELETE FROM tasks WHERE id = ?
DeleteRow(table, k) == {p \in table : p[1] # k}

(* -------------------- the handler-local state -------------------------- *)
\* A handler runs on the state S; ev, sv and tr collect what it emits, the
\* save_task calls it makes and the statuses it assigns, ret its return value,
\* thread is the thread that executes it (the owning thread unless said),
\* calls the sub-services whose createTask it has called.
Cur == [tasks |-> tasks, db |-> db, futures |-> futures, jobs |-> jobs,
        ev |-> <<>>, sv |-> <<>>, tr |-> <<>>, ret |-> "none", thread |-> "main",
        calls |-> <<>>]

InFlight(S, t) == \E s \in Services : t \in DOMAIN S.futures[s]

\* DatabaseService.save_task: INSERT OR REPLACE of task.toDict(); ok = FALSE is
\* the except branch (the write raised), which returns False
save_task(S, t, ok) ==
    LET table == IF ok THEN InsertOrReplace(S.db, t, toDict(S.tasks[t])) ELSE S.db
    IN  [S EXCEPT !.db = table,
                  !.sv = Append(@, [tid |-> t, row |-> toDict(S.tasks[t]), ok |-> ok,
                                    kept |-> table = S.db])]

\* signal.emit(task, ...): the slots run inside the emit and see the task
\* object, the store and the in-flight map as they are now
Emit(S, sig, t, success, msg) ==
    [S EXCEPT !.ev = Append(@,
        [sig |-> sig, tid |-> t, task |-> S.tasks[t],
         hasRow |-> t \in Ids(S.db),
         row |-> IF t \in Ids(S.db) THEN Row(S.db, t) ELSE NullRow,
         inFlight |-> InFlight(S, t),
         saves |-> Len(S.sv),
         saved |-> Len(S.sv) > 0 /\ S.sv[Len(S.sv)].ok /\ S.sv[Len(S.sv)].tid = t,
         success |-> success, msg |-> msg])]

_emit_task_created(S, t) == Emit(S, "taskCreated", t, FALSE, "")
_emit_task_updated(S, t) == Emit(S, "taskUpdated", t, FALSE, "")
_emit_task_finished(S, t, success, error_msg) == Emit(S, "taskFinished", t, success, error_msg)

\* BaseService._addLog: the entry goes to log_cache and the logger, then
\* self.logGenerated and signalBus.logGenerated are emitted
_addLog(S, level, message) ==
    [S EXCEPT !.ev = Append(@, [sig |-> "logGenerated", level |-> level, msg |-> message,
                                thread |-> S.thread])]

\* task.status = st
SetStatus(S, t, st) == [S EXCEPT !.tasks[t].status = st, !.tr = Append(@, st)]

\* the run number asyncRun gives the next job of task t
NextRun(S, t) == Cardinality({j \in DOMAIN S.jobs : j[1] = t}) + 1

\* TaskExecutor.asyncRun: the job is queued on the pool and a Future returned
asyncRun(S, s, t) ==
    [S EXCEPT !.jobs = Put(@, <<t, NextRun(S, t)>>, [svc |-> s, st |-> "running"])]

(* --------------------------- the handlers ------------------------------ *)
\* start without the test "task.id in self.futures"
startRejects_NoDuplicateTest(S, s, t) == s = "transcribe" /\ ~available[s]

\* the early returns of start: TranscriptionService.start tests isAvailable()
\* first; every start tests "task.id in self.futures"
startRejects(S, s, t) ==
    \/ s = "transcribe" /\ ~available[s]
    \/ t \in DOMAIN S.futures[s]

\* start that gives up when save_task returns False
start_StopsOnFailedSave(S, s, t, clock, ok) ==
    IF startRejects(S, s, t)
    THEN [S EXCEPT !.ret = "False"]
    ELSE LET S1 == SetStatus(S, t, "RUNNING")
             S2 == [S1 EXCEPT !.tasks[t].startTime = clock]
             S3 == save_task(S2, t, ok)
             S4 == _emit_task_updated(S3, t)
             S5 == asyncRun(S4, s, t)
         IN  IF ~ok THEN [S3 EXCEPT !.ret = "False"]
             ELSE [S5 EXCEPT !.futures[s] = Put(@, t, NextRun(S4, t)), !.ret = "True"]

\* BilibiliService.start / YouTubeService.start / TranscriptionService.start
start(S, s, t, clock, ok) ==
    IF startRejects(S, s, t)
    THEN [S EXCEPT !.ret = "False"]
    ELSE LET S1 == SetStatus(S, t, "RUNNING")
             S2 == [S1 EXCEPT !.tasks[t].startTime = clock]
             S3 == save_task(S2, t, ok)
             S4 == _emit_task_updated(S3, t)
             S5 == asyncRun(S4, s, t)
         IN  [S5 EXCEPT !.futures[s] = Put(@, t, NextRun(S4, t)), !.ret = "True"]

\* cancel that leaves the entry in self.futures
cancel_KeepsEntry(S, s, t, ok) ==
    IF t \in DOMAIN S.futures[s]
    THEN LET S2 == SetStatus(S, t, "CANCELLED")
             S3 == save_task(S2, t, ok)
             S4 == _emit_task_updated(S3, t)
         IN  [S4 EXCEPT !.ret = "True"]
    ELSE [S EXCEPT !.ret = "False"]

\* cancel without the test "task.id in self.futures"
cancel_NoInFlightTest(S, s, t, ok) ==
    LET S1 == [S EXCEPT !.futures[s] = Del(@, t)]
        S2 == SetStatus(S1, t, "CANCELLED")
        S3 == save_task(S2, t, ok)
        S4 == _emit_task_updated(S3, t)
    IN  [S4 EXCEPT !.ret = "True"]

\* BaseService.cancel
cancel(S, s, t, ok) ==
    IF t \in DOMAIN S.futures[s]
    THEN LET S1 == [S EXCEPT !.futures[s] = Del(@, t)]
             S2 == SetStatus(S1, t, "CANCELLED")
             S3 == save_task(S2, t, ok)
             S4 == _emit_task_updated(S3, t)
         IN  [S4 EXCEPT !.ret = "True"]
    ELSE [S EXCEPT !.ret = "False"]

\* restart that forgets to clear errorMsg
restartReset_KeepsErrorMsg(task) ==
    [task EXCEPT !.progress = 0, !.startTime = NoTime, !.endTime = NoTime]

\* the fields BaseService.restart resets
restartReset(task) ==
    [task EXCEPT !.progress = 0, !.errorMsg = "", !.startTime = NoTime, !.endTime = NoTime]

\* BaseService.restart
restart(S, s, t, clock, ok1, ok2) ==
    LET S1 == IF t \in DOMAIN S.futures[s] THEN [S EXCEPT !.futures[s] = Del(@, t)] ELSE S
        S2 == SetStatus(S1, t, "PENDING")
        S3 == [S2 EXCEPT !.tasks[t] = restartReset(@)]
        S4 == save_task(S3, t, ok1)
    IN  start(S4, s, t, clock, ok2)

\* _onWorkerProgress that emits before it saves
_onWorkerProgress_EmitFirst(S, t, progress, ok) ==
    LET S1 == [S EXCEPT !.tasks[t].progress = progress]
        S2 == _emit_task_updated(S1, t)
    IN  save_task(S2, t, ok)

\* BaseService._onWorkerProgress
_onWorkerProgress(S, t, progress, ok) ==
    LET S1 == [S EXCEPT !.tasks[t].progress = progress]
        S2 == save_task(S1, t, ok)
    IN  _emit_task_updated(S2, t)

\* _onWorkerFinished that does not set endTime
_onWorkerFinished_NoEndTime(S, s, t, success, error_msg, clock, ok) ==
    LET S2 == IF success
              THEN [SetStatus(S, t, "SUCCESS") EXCEPT !.tasks[t].progress = 100]
              ELSE [SetStatus(S, t, "FAILED") EXCEPT !.tasks[t].errorMsg = error_msg]
        S3 == save_task(S2, t, ok)
        S4 == _emit_task_finished(S3, t, success, error_msg)
    IN  IF t \in DOMAIN S4.futures[s] THEN [S4 EXCEPT !.futures[s] = Del(@, t)] ELSE S4

\* _onWorkerFinished that leaves the entry in self.futures
_onWorkerFinished_KeepsEntry(S, s, t, success, error_msg, clock, ok) ==
    LET S1 == [S EXCEPT !.tasks[t].endTime = clock]
        S2 == IF success
              THEN [SetStatus(S1, t, "SUCCESS") EXCEPT !.tasks[t].progress = 100]
              ELSE [SetStatus(S1, t, "FAILED") EXCEPT !.tasks[t].errorMsg = error_msg]
        S3 == save_task(S2, t, ok)
    IN  _emit_task_finished(S3, t, success, error_msg)

\* BaseService._onWorkerFinished
_onWorkerFinished(S, s, t, success, error_msg, clock, ok) ==
    LET S1 == [S EXCEPT !.tasks[t].endTime = clock]
        S2 == IF success
              THEN [SetStatus(S1, t, "SUCCESS") EXCEPT !.tasks[t].progress = 100]
              ELSE [SetStatus(S1, t, "FAILED") EXCEPT !.tasks[t].errorMsg = error_msg]
        S3 == save_task(S2, t, ok)
        S4 == _emit_task_finished(S3, t, success, error_msg)
    IN  IF t \in DOMAIN S4.futures[s] THEN [S4 EXCEPT !.futures[s] = Del(@, t)] ELSE S4

\* BilibiliService._onDownloadSuccess / YouTubeService._onDownloadSuccess
_onDownloadSuccess(S, s, t, output_path, clock, ok) ==
    LET S1 == [S EXCEPT !.tasks[t].outputPath = output_path, !.tasks[t].progress = 100]
    IN  _onWorkerFinished(S1, s, t, TRUE, DownloadDoneMsg, clock, ok)

\* _onDownloadFailed that takes str(error) of the FutureFailed itself
_onDownloadFailed_StrOfError(S, s, t, error, clock, ok) ==
    _onWorkerFinished(S, s, t, FALSE, Str(error), clock, ok)

\* BilibiliService._onDownloadFailed / YouTubeService._onDownloadFailed /
\* TranscriptionService._onTranscribeFailed: error_msg = str(error.exception)
_onDownloadFailed(S, s, t, error, clock, ok) ==
    _onWorkerFinished(S, s, t, FALSE,
                      IF "exception" \in DOMAIN error THEN Str(error.exception) ELSE Str(error),
                      clock, ok)

\* TranscriptionService._onTranscribeSuccess; result is the job's dict or None.
\* "datetime.now() - task.startTime" raises TypeError when startTime is None:
\* the slot is left with the two assignments made and nothing else.
_onTranscribeSuccess(S, s, t, result, clock, ok) ==
    IF result = "result"
    THEN LET S0 == [S EXCEPT !.tasks[t].outputPath = OutPath, !.tasks[t].progress = 100]
             S1 == [S0 EXCEPT !.tasks[t].config = DictSet(@, "srt_path", SrtPath)]
         IN  IF S1.tasks[t].startTime = NoTime
             THEN [S1 EXCEPT !.ret = "raised"]
             ELSE _onWorkerFinished(S1, s, t, TRUE, TranscribeDoneMsg, clock, ok)
    ELSE _onWorkerFinished(S, s, t, TRUE, TranscribeSkippedMsg, clock, ok)

\* the slot connected to future.result / future.failed in start
onFutureDone(S, s, t, outcome, error, clock, ok) ==
    IF outcome = "failed" THEN _onDownloadFailed(S, s, t, error, clock, ok)
    ELSE IF s = "transcribe" THEN _onTranscribeSuccess(S, s, t, outcome, clock, ok)
    ELSE _onDownloadSuccess(S, s, t, OutPath, clock, ok)

\* a Future that drops a callback registered after it has completed
connect_DropsCallback(S, s, t, outcome, error, clock, ok) == S

\* future.result.connect(...) / future.failed.connect(...) on a Future that has
\* completed already: the callback of its outcome fires at once, in the caller
connect(S, s, t, outcome, error, clock, ok) == onFutureDone(S, s, t, outcome, error, clock, ok)

\* BilibiliService.start / YouTubeService.start / TranscriptionService.start when
\* the pool thread has finished the job function between asyncRun and the two
\* connect calls: the Future is complete when the callbacks are registered, and
\* "self.futures[task.id] = future" comes after them
startRacing(S, s, t, clock, ok1, ok2, outcome, error) ==
    IF startRejects(S, s, t)
    THEN [S EXCEPT !.ret = "False"]
    ELSE LET S1 == SetStatus(S, t, "RUNNING")
             S2 == [S1 EXCEPT !.tasks[t].startTime = clock]
             S3 == save_task(S2, t, ok1)
             S4 == _emit_task_updated(S3, t)
             S5 == asyncRun(S4, s, t)
             S6 == [S5 EXCEPT !.jobs[<<t, NextRun(S4, t)>>].st = "done"]
             S7 == connect(S6, s, t, outcome, error, clock, ok2)
         IN  [S7 EXCEPT !.futures[s] = Put(@, t, NextRun(S4, t)), !.ret = "True"]


\* createTask that announces the task after it has started it
createTask_StartFirst(S, t, exists, clock, ok1, ok2) ==
    IF ~available["transcribe"] THEN [S EXCEPT !.ret = "None"]
    ELSE IF ~exists THEN [S EXCEPT !.ret = "None"]
    ELSE LET S1 == [S EXCEPT !.tasks = Put(@, t, NewTask("transcribe", "")),
                             !.tr = Append(@, "PENDING")]
             S2 == save_task(S1, t, ok1)
             S3 == start(S2, "transcribe", t, clock, ok2)
             S4 == _emit_task_created(S3, t)
         IN  [S4 EXCEPT !.ret = "Task"]

\* TranscriptionService.createTask; exists is Path(input_path).exists()
createTask(S, t, exists, clock, ok1, ok2) ==
    IF ~available["transcribe"] THEN [S EXCEPT !.ret = "None"]
    ELSE IF ~exists THEN [S EXCEPT !.ret = "None"]
    ELSE LET S1 == [S EXCEPT !.tasks = Put(@, t, NewTask("transcribe", "")),
                             !.tr = Append(@, "PENDING")]
             S2 == save_task(S1, t, ok1)
             S3 == _emit_task_created(S2, t)
             S4 == start(S3, "transcribe", t, clock, ok2)
         IN  [S4 EXCEPT !.ret = "Task"]

\* BilibiliService._extract_bv_id: the url itself when it starts with BV,
\* else the first match of BV[\w]+, else None (the empty string here)
_extract_bv_id(url) ==
    IF Len(url) > 0 /\ url[1] = "BV" THEN url
    ELSE LET M == {i \in 1..(Len(url) - 1) : url[i] = "BV" /\ url[i + 1] \in WordPieces}
         IN  IF M = {} THEN <<>>
             ELSE LET i == CHOOSE m \in M : \A n \in M : m <= n
                  IN  <<url[i], url[i + 1]>>

\* the part of a download createTask from Task(...) on: the constructor raises
\* TypeError on a keyword that is no field; else save, emit, start
downloadCreate(S, s, t, keywords, clock, ok1, ok2) ==
    IF ~(keywords \subseteq TaskFields) THEN [S EXCEPT !.ret = "raised"]
    ELSE LET S1 == [S EXCEPT !.tasks = Put(@, t, NewTask("download", s)),
                             !.tr = Append(@, "PENDING")]
             S2 == save_task(S1, t, ok1)
             S3 == Emit(S2, "taskCreated", t, FALSE, "")
             S4 == start(S3, s, t, clock, ok2)
         IN  [S4 EXCEPT !.ret = "Task"]

\* BilibiliService.createTask
BilibiliService_createTask(S, t, url, clock, ok1, ok2) ==
    LET S0 == [S EXCEPT !.calls = Append(@, "bilibili")]
    IN  IF _extract_bv_id(url) = <<>> THEN [S0 EXCEPT !.ret = "None"]
        ELSE downloadCreate(S0, "bilibili", t, BilibiliTaskKeywords, clock, ok1, ok2)

\* YouTubeService.createTask: _extract_video_id always returns a string
YouTubeService_createTask(S, t, url, clock, ok1, ok2) ==
    downloadCreate([S EXCEPT !.calls = Append(@, "youtube")], "youtube", t,
                   YouTubeTaskKeywords, clock, ok1, ok2)

\* UnifiedDownloadService.createTask
UnifiedDownloadService_createTask(S, t, url, clock, ok1, ok2) ==
    IF In("bilibili.com", url) \/ In("BV", url)
    THEN BilibiliService_createTask(S, t, url, clock, ok1, ok2)
    ELSE IF In("youtube.com", url) \/ In("youtu.be", url)
    THEN YouTubeService_createTask(S, t, url, clock, ok1, ok2)
    ELSE [S EXCEPT !.ret = "None"]

\* cleanup that also empties the table
cleanup_ClearsStore(S, s) ==
    IF s = "unified" THEN S ELSE [S EXCEPT !.futures[s] = <<>>, !.db = {}]

\* BaseService.cleanup: self.futures.clear(); UnifiedDownloadService inherits
\* it and clears its own map, which is always empty
cleanup(S, s) ==
    IF s = "unified" THEN S ELSE [S EXCEPT !.futures[s] = <<>>]

\* DatabaseService.delete_task: True when a row was deleted; ok = FALSE is the
\* except branch
delete_task(S, t, ok) ==
    IF ~ok THEN [S EXCEPT !.ret = "False"]
    ELSE [S EXCEPT !.db = DeleteRow(@, t),
                   !.ret = IF t \in Ids(S.db) THEN "True" ELSE "False"]

(* ---------------------------- the actions ------------------------------ *)
NoLast == [op |-> "init", tid |-> "", run |-> 0, outcome |-> "", err |-> "", ret |-> "none",
           events |-> <<>>, saves |-> <<>>, trail |-> <<>>, preStatus |-> "",
           preIn |-> FALSE, keptTask |-> TRUE, keptMap |-> TRUE, submitted |-> 0,
           clock |-> 0, svc |-> "", arg |-> <<>>, rowsBefore |-> {}, thread |-> "main",
           calls |-> <<>>]

\* the handler's effect becomes the next state; last records the call
Failed(S) == Cardinality({i \in 1..Len(S.sv) : ~S.sv[i].ok})

\* svc is the service whose method ran, arg the argument of createTask
CommitAs(S, op, t, r, outcome, err, svc, arg) ==
    /\ dbFailures + Failed(S) <= MaxDbFailures
    /\ dbFailures' = dbFailures + Failed(S)
    /\ tasks' = S.tasks
    /\ db' = S.db
    /\ futures' = S.futures
    /\ jobs' = S.jobs
    /\ last' = [op |-> op, tid |-> t, run |-> r, outcome |-> outcome, err |-> err,
                ret |-> S.ret,
                events |-> S.ev, saves |-> S.sv, trail |-> S.tr,
                preStatus |-> IF t \in DOMAIN tasks THEN tasks[t].status ELSE "",
                preIn |-> InFlight(Cur, t),
                keptTask |-> S.tasks = tasks /\ S.db = db,
                keptMap |-> S.futures = futures,
                submitted |-> Cardinality(DOMAIN S.jobs) - Cardinality(DOMAIN jobs),
                clock |-> now, svc |-> svc, arg |-> arg, rowsBefore |-> Ids(db),
                thread |-> S.thread, calls |-> S.calls]
    /\ UNCHANGED <<now, available, sql>>

\* a method of the service that owns the task
Commit(S, op, t, r, outcome, err) ==
    CommitAs(S, op, t, r, outcome, err,
             IF t \in DOMAIN S.tasks THEN ServiceOf(S.tasks[t]) ELSE "", <<>>)

\* whether a write to the store succeeds: it can raise while fewer than
\* MaxDbFailures writes have raised
WriteOutcomes == IF dbFailures < MaxDbFailures THEN BOOLEAN ELSE {TRUE}

\* a start that is accepted submits a job: the model stops at MaxRuns jobs per task
CanSubmit(s, t) == startRejects(Cur, s, t) \/ NextRun(Cur, t) <= MaxRuns

\* _available is set once in __init__; that of the download services is read by
\* none of the handlers below (their start has no isAvailable() test).
\* BilibiliService and YouTubeService have the same start, slots and inherited
\* handlers, so the download task left by an earlier session is a Bilibili one
\* here; SpecAnyAvailability below starts from the YouTube row as well.
Init ==
    /\ now = 0
    /\ available \in {f \in [Services -> BOOLEAN] : f["bilibili"] /\ f["youtube"]}
    /\ tasks = <<>>
    /\ \E D \in SUBSET TaskIds : \E f \in [D -> {r \in PreloadRows : source(_row_to_task(r)) # "youtube"}] :
          db = {<<k, f[k]>> : k \in D}
    /\ futures = [s \in Services |-> <<>>]
    /\ jobs = <<>>
    /\ dbFailures = 0
    /\ last = NoLast
    /\ sql = NoSql

\* time passes
Tick ==
    /\ now < MaxClock
    /\ now' = now + 1
    /\ last' = [NoLast EXCEPT !.op = "tick"]
    /\ UNCHANGED <<available, tasks, db, futures, jobs, dbFailures, sql>>

\* FailedTaskView / SuccessTaskView load the finished tasks of the store
LoadTask(t) ==
    /\ t \in Ids(db)
    /\ t \notin DOMAIN tasks
    /\ Commit([Cur EXCEPT !.tasks = Put(@, t, _row_to_task(Row(db, t)))], "load", t, 0, "", "")

\* transcriptionService.createTask(input_path)
CreateTask(t) ==
    /\ t \notin DOMAIN tasks
    /\ t \notin Ids(db)
    /\ \E path \in InputPaths, ok1 \in WriteOutcomes, ok2 \in WriteOutcomes :
          CommitAs(createTask(Cur, t, path \in Files, now, ok1, ok2), "createTask", t, 0, "", "",
                   "transcribe", path)

\* BilibiliService / YouTubeService / UnifiedDownloadService .createTask(url)
CreateDownloadTask(t) ==
    /\ t \notin DOMAIN tasks
    /\ t \notin Ids(db)
    /\ \E url \in Urls, ok1 \in WriteOutcomes, ok2 \in WriteOutcomes :
          \/ CommitAs(BilibiliService_createTask(Cur, t, url, now, ok1, ok2),
                      "createTask", t, 0, "", "", "bilibili", url)
          \/ CommitAs(YouTubeService_createTask(Cur, t, url, now, ok1, ok2),
                      "createTask", t, 0, "", "", "youtube", url)
          \/ CommitAs(UnifiedDownloadService_createTask(Cur, t, url, now, ok1, ok2),
                      "createTask", t, 0, "", "", "unified", url)

\* service.start(task)
Start(t) ==
    /\ t \in DOMAIN tasks
    /\ CanSubmit(ServiceOf(tasks[t]), t)
    /\ \E ok \in WriteOutcomes :
          Commit(start(Cur, ServiceOf(tasks[t]), t, now, ok), "start", t, 0, "", "")

\* service.cancel(task)
Cancel(t) ==
    /\ t \in DOMAIN tasks
    /\ \E ok \in WriteOutcomes :
          Commit(cancel(Cur, ServiceOf(tasks[t]), t, ok), "cancel", t, 0, "", "")

\* service.restart(task)
Restart(t) ==
    /\ t \in DOMAIN tasks
    /\ NextRun(Cur, t) <= MaxRuns
    /\ \E ok1 \in WriteOutcomes, ok2 \in WriteOutcomes :
          Commit(restart(Cur, ServiceOf(tasks[t]), t, now, ok1, ok2), "restart", t, 0, "", "")

\* a job function that is executing reports progress
Progress(t) ==
    /\ t \in DOMAIN tasks
    /\ \E j \in DOMAIN jobs : j[1] = t /\ jobs[j].st = "running"
    /\ \E p \in ProgressVals, ok \in WriteOutcomes :
          Commit(_onWorkerProgress(Cur, t, p, ok), "progress", t, 0, "", "")

\* the outcomes a job function of service s can have
Outcomes(s) == IF s = "transcribe" THEN {"result", "skipped", "failed"} ELSE {"result", "failed"}

\* a job function returns or raises on its worker thread and the Future's
\* result / failed signal reaches the slot connected in start
JobDone(t, r) ==
    /\ <<t, r>> \in DOMAIN jobs
    /\ jobs[<<t, r>>].st = "running"
    /\ \E o \in Outcomes(jobs[<<t, r>>].svc), e \in FutureFailed, ok \in WriteOutcomes :
          LET j == jobs[<<t, r>>]
              S == onFutureDone(Cur, j.svc, t, o, e, now, ok)
          IN  Commit([S EXCEPT !.jobs[<<t, r>>].st = "done"], "jobDone", t, r, o,
                     IF o = "failed" THEN e.exception.msg ELSE "")

Next ==
    \/ Tick
    \/ \E t \in TaskIds : LoadTask(t)
    \/ \E t \in TaskIds : CreateTask(t)
    \/ \E t \in TaskIds : CreateDownloadTask(t)
    \/ \E t \in TaskIds : Start(t)
    \/ \E t \in TaskIds : Cancel(t)
    \/ \E t \in TaskIds : Restart(t)
    \/ \E t \in TaskIds : Progress(t)
    \/ \E t \in TaskIds, r \in Runs : JobDone(t, r)

\* every handler of the services, called in any order; the completion of a job
\* reaches its slots after the start that submitted it has returned (SpecRace
\* has the other case)
Spec == Init /\ [][Next]_vars

\* The callers of the repository: start is called on a task that is pending
\* (createTask and restart call it right after setting PENDING), restart on a
\* task of the finished-task views.
StartPending(t) ==
    /\ t \in DOMAIN tasks
    /\ tasks[t].status = "PENDING"
    /\ Start(t)

RestartFinished(t) ==
    /\ t \in DOMAIN tasks
    /\ tasks[t].status \in Terminal
    /\ Restart(t)

NextCallers ==
    \/ Tick
    \/ \E t \in TaskIds : LoadTask(t)
    \/ \E t \in TaskIds : CreateTask(t)
    \/ \E t \in TaskIds : CreateDownloadTask(t)
    \/ \E t \in TaskIds : StartPending(t)
    \/ \E t \in TaskIds : Cancel(t)
    \/ \E t \in TaskIds : RestartFinished(t)
    \/ \E t \in TaskIds : Progress(t)
    \/ \E t \in TaskIds, r \in Runs : JobDone(t, r)

SpecCallers == Init /\ [][NextCallers]_vars

\* service.cleanup(), called by MainWindow.closeEvent
Cleanup(s) ==
    CommitAs(cleanup(Cur, s), "cleanup", "", 0, "", "", s, <<>>)

\* the explicit delete of a task's row: DatabaseService.delete_task(task_id)
DeleteTask(t) ==
    \E ok \in WriteOutcomes :
        CommitAs(delete_task(Cur, t, ok), "delete", t, 0, "", "", "", <<>>)

\* the handlers without the clock: no handler reads a time to decide anything
NextNoTick ==
    \/ \E t \in TaskIds : LoadTask(t)
    \/ \E t \in TaskIds : CreateTask(t)
    \/ \E t \in TaskIds : CreateDownloadTask(t)
    \/ \E t \in TaskIds : Start(t)
    \/ \E t \in TaskIds : Cancel(t)
    \/ \E t \in TaskIds : Restart(t)
    \/ \E t \in TaskIds : Progress(t)
    \/ \E t \in TaskIds, r \in Runs : JobDone(t, r)

\* The machine with the explicit delete and with shutdown: once closeEvent
\* has called cleanup the event loop ends, and no handler runs any more
NextStore ==
    \/ last.op # "cleanup" /\ NextNoTick
    \/ last.op # "cleanup" /\ \E t \in TaskIds : DeleteTask(t)
    \/ \E s \in Services \cup {"unified"} : Cleanup(s)

SpecStore == Init /\ [][NextStore]_vars

\* service.start(task) whose job function has returned or raised before start
\* connects the callbacks
StartRacing(t) ==
    /\ t \in DOMAIN tasks
    /\ CanSubmit(ServiceOf(tasks[t]), t)
    /\ \E ok1 \in WriteOutcomes, ok2 \in WriteOutcomes,
          o \in Outcomes(ServiceOf(tasks[t])), e \in FutureFailed :
          Commit(startRacing(Cur, ServiceOf(tasks[t]), t, now, ok1, ok2, o, e), "start", t, 0, o,
                 IF o = "failed" THEN e.exception.msg ELSE "")

\* UnifiedDownloadService.start
UnifiedDownloadService_start(S, t, clock, ok) ==
    IF source(S.tasks[t]) = "bilibili" THEN start(S, "bilibili", t, clock, ok)
    ELSE IF source(S.tasks[t]) = "youtube" THEN start(S, "youtube", t, clock, ok)
    ELSE [_addLog(S, "ERROR", "unknown source") EXCEPT !.ret = "False"]

\* UnifiedDownloadService.restart
UnifiedDownloadService_restart(S, t, clock, ok1, ok2) ==
    IF source(S.tasks[t]) = "bilibili" THEN restart(S, "bilibili", t, clock, ok1, ok2)
    ELSE IF source(S.tasks[t]) = "youtube" THEN restart(S, "youtube", t, clock, ok1, ok2)
    ELSE [S EXCEPT !.ret = "False"]

\* UnifiedDownloadService.cancel: the result of the sub-service is dropped,
\* the method ends without a return statement
UnifiedDownloadService_cancel(S, t, ok) ==
    IF source(S.tasks[t]) = "bilibili" THEN [cancel(S, "bilibili", t, ok) EXCEPT !.ret = "None"]
    ELSE IF source(S.tasks[t]) = "youtube" THEN [cancel(S, "youtube", t, ok) EXCEPT !.ret = "None"]
    ELSE [S EXCEPT !.ret = "None"]

\* downloadService.start(task) / .restart(task) / .cancel(task), also with a
\* task that no download service has created
UnifiedCall(t) ==
    /\ t \in DOMAIN tasks
    /\ \E ok1 \in WriteOutcomes, ok2 \in WriteOutcomes :
          \/ /\ source(tasks[t]) \in {"bilibili", "youtube"} => CanSubmit(source(tasks[t]), t)
             /\ CommitAs(UnifiedDownloadService_start(Cur, t, now, ok1),
                         "start", t, 0, "", "", "unified", <<>>)
          \/ /\ NextRun(Cur, t) <= MaxRuns
             /\ CommitAs(UnifiedDownloadService_restart(Cur, t, now, ok1, ok2),
                         "restart", t, 0, "", "", "unified", <<>>)
          \/ CommitAs(UnifiedDownloadService_cancel(Cur, t, ok1),
                      "cancel", t, 0, "", "", "unified", <<>>)

NextUnified ==
    \/ NextNoTick
    \/ \E t \in TaskIds : UnifiedCall(t)

\* the handlers, and the calls that go through the UnifiedDownloadService
SpecUnified == Init /\ [][NextUnified]_vars

\* the messages the job functions log
LogMsgs == {"extracting audio"}

\* the job function, executing on a thread of the pool, reports what it is
\* doing: transcribe_task calls self._addLog, download_task hands
\* status_callback (which calls self._addLog) to the downloader
JobLog(t, r) ==
    /\ <<t, r>> \in DOMAIN jobs
    /\ jobs[<<t, r>>].st = "running"
    /\ \E m \in LogMsgs :
          Commit(_addLog([Cur EXCEPT !.thread = "worker"], "INFO", m), "jobLog", t, r, "", "")

NextThreads ==
    \/ NextNoTick
    \/ \E t \in TaskIds, r \in Runs : JobLog(t, r)

\* the handlers on the owning thread and the job functions on the pool
SpecThreads == Init /\ [][NextThreads]_vars

NextRace ==
    \/ NextNoTick
    \/ \E t \in TaskIds : StartRacing(t)

\* the handlers, with starts whose job is over before the callbacks are connected
SpecRace == Init /\ [][NextRace]_vars

\* The tasks save_task is given in the round trip: every status, times set
\* and unset, JSON-shaped fields empty and not
TaskValues ==
    { [NewTask(ty[1], ty[2]) EXCEPT
          !.status = st, !.startTime = a, !.endTime = b,
          !.config = c, !.tags = g, !.outputPaths = g,
          !.errorMsg = IF st = "FAILED" THEN "no such video" ELSE "",
          !.outputPath = IF st = "SUCCESS" THEN OutPath ELSE ""] :
        ty \in {<<"download", "bilibili">>, <<"download", "youtube">>, <<"transcribe", "">>},
        st \in TaskStatus, a \in {NoTime} \cup Clock, b \in {NoTime, MaxClock},
        c \in {PyDict(<<>>), PyDict(<<<<"language", "ja">>>>),
               PyDict(<<<<"language", "ja">>, <<"srt_path", SrtPath>>>>)},
        g \in {PyList(<<>>), PyList(<<"a", "b">>)} }

\* a task of any content, not yet in the table
InitRoundTrip ==
    /\ now = 0
    /\ available = [s \in Services |-> TRUE]
    /\ tasks \in [TaskIds -> TaskValues]
    /\ db = {}
    /\ futures = [s \in Services |-> <<>>]
    /\ jobs = <<>>
    /\ dbFailures = 0
    /\ last = NoLast
    /\ sql = NoSql

\* DatabaseService.save_task(task)
SaveTask(t) ==
    /\ t \in DOMAIN tasks
    /\ \E ok \in WriteOutcomes :
          Commit(save_task(Cur, t, ok), "save", t, 0, "", "")

SpecRoundTrip == InitRoundTrip /\ [][\E t \in TaskIds : SaveTask(t)]_vars

(* --------------------------- list_tasks_by ----------------------------- *)
\* the ids and rows of the tables that are listed
ListIds == {"t1", "t2", "t3"}
ListRows ==
    { toDict([NewTask("download", "bilibili") EXCEPT !.status = "FAILED", !.progress = 50]),
      toDict([NewTask("download", "bilibili") EXCEPT !.status = "SUCCESS", !.progress = 100]),
      toDict([NewTask("transcribe", "") EXCEPT !.status = "SUCCESS", !.progress = 100]) }

\* limit = None
NoLimit == -1

\* the columns of table tasks a list can be ordered by
Columns == {"progress"}

\* WHERE 1=1 [AND status = ?] [AND type = ?]: "if status:" and "if task_type:"
\* add the condition when the argument is given (None is "")
Where(table, status, task_type) ==
    {p \in table : /\ status # "" => p[2].status = StatusValue(status)
                   /\ task_type # "" => p[2].type = task_type}

\* ORDER BY orderBy ASC|DESC: the orders SQLite can return the rows in (rows
\* with equal keys come in any order)
OrderBy(rows, orderBy, asc) ==
    {f \in [1..Cardinality(rows) -> rows] :
        /\ \A i, j \in DOMAIN f : i # j => f[i] # f[j]
        /\ \A i, j \in DOMAIN f :
              i < j => IF asc THEN f[i][2][orderBy] <= f[j][2][orderBy]
                             ELSE f[i][2][orderBy] >= f[j][2][orderBy]}

\* "if limit: query += LIMIT limit OFFSET offset"
LimitOffset(f, limit, offset) ==
    IF limit = NoLimit \/ limit = 0 THEN f
    ELSE SubSeq(f, offset + 1, IF offset + limit < Len(f) THEN offset + limit ELSE Len(f))

\* DatabaseService.list_tasks_by: the lists it can return; ok = FALSE is a
\* query that raises, as does a column the table does not have
list_tasks_by(table, status, task_type, orderBy, asc, limit, offset, ok) ==
    IF ~ok \/ orderBy \notin Columns THEN {<<>>}
    ELSE {[i \in DOMAIN LimitOffset(f, limit, offset) |->
              [id |-> LimitOffset(f, limit, offset)[i][1],
               task |-> _row_to_task(LimitOffset(f, limit, offset)[i][2])]] :
          f \in OrderBy(Where(table, status, task_type), orderBy, asc)}

\* any table of up to three rows
InitList ==
    /\ now = 0
    /\ available = [s \in Services |-> TRUE]
    /\ tasks = <<>>
    /\ \E D \in SUBSET ListIds : \E f \in [D -> ListRows] : db = {<<k, f[k]>> : k \in D}
    /\ futures = [s \in Services |-> <<>>]
    /\ jobs = <<>>
    /\ dbFailures = 0
    /\ last = NoLast
    /\ sql = NoSql

\* db.list_tasks_by(status, task_type, orderBy=, asc=, limit=, offset=), one
\* query on each table
ListTasksBy ==
    /\ last.op = "init"
    /\ \E status \in {"", "SUCCESS"}, task_type \in {"", "download"},
          orderBy \in Columns \cup {"nosuchcolumn"}, asc \in BOOLEAN,
          limit \in {NoLimit, 0, 1, 2}, offset \in {0, 1}, ok \in BOOLEAN :
          \E result \in list_tasks_by(db, status, task_type, orderBy, asc, limit, offset, ok) :
              CommitAs([Cur EXCEPT !.ret = result], "list", "", 0,
                       IF ok /\ orderBy \in Columns THEN "" ELSE "error", "", "db",
                       [status |-> status, type |-> task_type, orderBy |-> orderBy,
                        asc |-> asc, limit |-> limit, offset |-> offset])

SpecList == InitList /\ [][ListTasksBy]_vars

(* ------------------------------ sqlRequest ----------------------------- *)
\* list.remove(w)
Remove(seq, w) == SelectSeq(seq, LAMBDA x : x # w)

\* QThread.isRunning(): started and run() not yet left
isRunning(q, w) == q.pc[w] \notin {"none", "ended"}

\* sqlRequest("taskService", method, callback, ...): the worker is created,
\* callback connected to finished, the worker appended to _active_workers,
\* on_finished and on_error connected, the thread started
sqlRequest(q, w) ==
    [q EXCEPT !.pc[w] = "started", !._active_workers = Append(@, w)]

\* signal.emit(...) in the worker thread: the receivers live in the owning
\* thread, so one call of each connected slot is queued for its event loop
emit(q, w, sig) ==
    [q EXCEPT !.queue = @ \o (IF sig = "finished"
                              THEN <<[slot |-> "callback", w |-> w],
                                     [slot |-> "on_finished", w |-> w]>>
                              ELSE <<[slot |-> "on_error", w |-> w]>>)]

\* AsyncDatabaseWorker.run, one statement at a time; outcome is what the
\* method of the DatabaseService does (it returns or it raises)
run(q, w, outcome) ==
    CASE q.pc[w] = "started" ->
             IF ~q._is_running[w] THEN [q EXCEPT !.pc[w] = "ended"]
             ELSE [q EXCEPT !.pc[w] = "calling"]
      [] q.pc[w] = "calling" ->
             [q EXCEPT !.pc[w] = "called", !.outcome[w] = outcome]
      [] q.pc[w] = "called" ->
             IF q._is_running[w] THEN [q EXCEPT !.pc[w] = "emitting"]
             ELSE [q EXCEPT !.pc[w] = "ended"]
      [] q.pc[w] = "emitting" ->
             [emit(q, w, IF q.outcome[w] = "result" THEN "finished" ELSE "error")
                  EXCEPT !.pc[w] = "returning"]
      [] q.pc[w] = "returning" -> [q EXCEPT !.pc[w] = "ended"]

\* AsyncDatabaseWorker.stop
stop(q, w) == [q EXCEPT !._is_running[w] = FALSE, !.stopped[w] = TRUE]

\* what is left of run() once stop() has been called: only a worker that has
\* passed the test of _is_running still emits
runToEnd(q, w) ==
    IF q.pc[w] = "emitting"
    THEN [emit(q, w, IF q.outcome[w] = "result" THEN "finished" ELSE "error")
              EXCEPT !.pc[w] = "ended"]
    ELSE [q EXCEPT !.pc[w] = "ended"]

\* the body of the loop of DatabaseService.cleanup for worker w: stop() and
\* wait(1000) when it is running; ends is whether run() is left within the
\* second, else terminate() kills the thread
cleanupWorker(q, w, ends) ==
    LET q1 == IF ~isRunning(q, w) THEN q
              ELSE IF ends THEN runToEnd(stop(q, w), w)
              ELSE [stop(q, w) EXCEPT !.pc[w] = "ended"]
    IN  [q1 EXCEPT !._active_workers = Remove(@, w)]

\* DatabaseService.cleanup: the loop over a copy of _active_workers, then clear()
RECURSIVE DatabaseService_cleanup(_, _, _)
DatabaseService_cleanup(q, workers, ends) ==
    IF workers = <<>> THEN [q EXCEPT !._active_workers = <<>>]
    ELSE DatabaseService_cleanup(cleanupWorker(q, Head(workers), ends[Head(workers)]),
                                 Tail(workers), ends)

\* the event loop of the owning thread runs the slot call at the head of its
\* queue: the callback given to sqlRequest, on_finished or on_error
deliver(q) ==
    LET c == Head(q.queue)
        q1 == [q EXCEPT !.queue = Tail(@)]
    IN  IF c.slot = "callback"
        THEN [q1 EXCEPT !.delivered[c.w] = @ + 1, !.late[c.w] = @ \/ q.stopped[c.w]]
        ELSE IF c.w \in {q._active_workers[i] : i \in 1..Len(q._active_workers)}
        THEN [q1 EXCEPT !._active_workers = Remove(@, c.w)]
        ELSE q1

\* a step of the database worker model: the handlers of the services are idle
SqlStep(op, q) ==
    /\ sql' = q
    /\ last' = [NoLast EXCEPT !.op = op]
    /\ UNCHANGED <<now, available, tasks, db, futures, jobs, dbFailures>>

\* a view calls sqlRequest
SqlRequest(w) ==
    /\ last.op # "dbCleanup"
    /\ sql.pc[w] = "none"
    /\ SqlStep("sqlRequest", sqlRequest(sql, w))

\* the thread of worker w executes the next statement of run()
WorkerRun(w) ==
    /\ sql.pc[w] \in {"started", "calling", "called", "emitting", "returning"}
    /\ \E outcome \in {"result", "error"} : SqlStep("run", run(sql, w, outcome))

\* the event loop delivers a queued slot call
Deliver ==
    /\ sql.queue # <<>>
    /\ SqlStep("deliver", deliver(sql))

\* MainWindow.closeEvent: db.cleanup()
DbCleanup ==
    /\ last.op # "dbCleanup"
    /\ \E ends \in [WorkerIds -> BOOLEAN] :
          SqlStep("dbCleanup", DatabaseService_cleanup(sql, sql._active_workers, ends))

NextWorkers ==
    \/ \E w \in WorkerIds : SqlRequest(w)
    \/ \E w \in WorkerIds : WorkerRun(w)
    \/ Deliver
    \/ DbCleanup

\* an empty store, no request made yet
InitWorkers ==
    /\ now = 0
    /\ available = [s \in Services |-> TRUE]
    /\ tasks = <<>>
    /\ db = {}
    /\ futures = [s \in Services |-> <<>>]
    /\ jobs = <<>>
    /\ dbFailures = 0
    /\ last = NoLast
    /\ sql = NoSql

\* the views' requests to the store, the worker threads, the event loop and
\* the shutdown
SpecWorkers == InitWorkers /\ [][NextWorkers]_vars

\* The same machine with _available of every service either way: the download
\* services start with _available False when their downloader is missing.
InitAnyAvailability ==
    /\ now = 0
    /\ available \in [Services -> BOOLEAN]
    /\ tasks = <<>>
    /\ \E D \in SUBSET TaskIds : \E f \in [D -> PreloadRows] : db = {<<k, f[k]>> : k \in D}
    /\ futures = [s \in Services |-> <<>>]
    /\ jobs = <<>>
    /\ dbFailures = 0
    /\ last = NoLast
    /\ sql = NoSql

SpecAnyAvailability == InitAnyAvailability /\ [][Next]_vars

\* isAvailable() of the service named in last.svc; UnifiedDownloadService is
\* available when one of its two services is
isAvailable(svc) ==
    IF svc = "unified" THEN available["bilibili"] \/ available["youtube"] ELSE available[svc]

TypeOK ==
    /\ now \in Clock
    /\ DOMAIN tasks \subseteq TaskIds
    /\ \A t \in DOMAIN tasks : tasks[t].status \in TaskStatus
    /\ Ids(db) \subseteq TaskIds
    /\ \A s \in Services : DOMAIN futures[s] \subseteq DOMAIN tasks

(* ------------------------------ claims --------------------------------- *)
\* the positions of the last handler's emits of signal sig
EventsOf(sig) == {i \in 1..Len(last.events) : last.events[i].sig = sig}

\* the last handler called save_task once, with the task as it is now; the row
\* is in the store when the write did not raise
Persisted ==
    /\ Len(last.saves) = 1
    /\ last.saves[1].row = toDict(tasks[last.tid])
    /\ last.saves[1].ok => (last.tid \in Ids(db) /\ Row(db, last.tid) = toDict(tasks[last.tid]))

\* the statuses the task went through in the last handler, from the one it had
Trail == <<last.preStatus>> \o last.trail

EdgeAllowed(a, b, op) ==
    \/ a = b
    \/ a = "" /\ b = "PENDING"
    \/ a = "PENDING" /\ b = "RUNNING"
    \/ a = "RUNNING" /\ b \in Terminal
    \/ a \in Terminal /\ b = "PENDING" /\ op = "restart"

\* C1: every status change a handler makes follows pending->running,
\* running->success/failed/cancelled or, in restart only, terminal->pending;
\* a terminal status is left by restart alone.
C1_StatusEdges ==
    \A i \in 1..(Len(Trail) - 1) : EdgeAllowed(Trail[i], Trail[i + 1], last.op)

\* C2: a task whose status is success, failed or cancelled is in no in-flight
\* map, between handlers and in what a slot sees during an emit.
C2_TerminalNotInFlight ==
    /\ \A t \in DOMAIN tasks : tasks[t].status \in Terminal => ~InFlight(Cur, t)
    /\ \A i \in 1..Len(last.events) :
          last.events[i].task.status \in Terminal => ~last.events[i].inFlight

\* C3: a task id never has two submitted jobs that are still executing.
C3_OneLiveJob ==
    \A t \in TaskIds : Cardinality({j \in DOMAIN jobs : j[1] = t /\ jobs[j].st = "running"}) <= 1

\* C4: the completion of a job whose task was cancelled is discarded: the task
\* and its row are as before, nothing is saved, no taskFinished is emitted.
C4_LateCompletionDiscarded ==
    (last.op = "jobDone" /\ last.preStatus = "CANCELLED") =>
        /\ last.keptTask
        /\ last.saves = <<>>
        /\ EventsOf("taskFinished") = {}
        /\ tasks[last.tid].status = "CANCELLED"

\* C5: start on a task whose id is in the in-flight map returns False, submits
\* no job, saves nothing, emits nothing and changes neither task nor map.
C5_DuplicateStart ==
    (last.op = "start" /\ last.preIn) =>
        /\ last.ret = "False"
        /\ last.submitted = 0
        /\ last.saves = <<>>
        /\ last.events = <<>>
        /\ last.keptTask
        /\ last.keptMap

C5_Witness == last.op = "start" /\ last.preIn /\ last.ret = "False"

\* C6: cancel on an in-flight task removes the entry, sets status cancelled,
\* saves the task, emits one taskUpdated and no taskFinished, returns True.
C6_Cancel ==
    (last.op = "cancel" /\ last.preIn) =>
        /\ ~InFlight(Cur, last.tid)
        /\ tasks[last.tid].status = "CANCELLED"
        /\ Persisted
        /\ Cardinality(EventsOf("taskUpdated")) = 1
        /\ EventsOf("taskFinished") = {}
        /\ last.ret = "True"

C6_Witness ==
    /\ last.op = "cancel" /\ last.preIn /\ last.ret = "True"
    /\ last.saves # <<>> /\ last.saves[1].ok

\* the service's start accepts the task: only TranscriptionService.start tests
\* isAvailable()
StartAccepts(t) == ServiceOf(tasks[t]) # "transcribe" \/ available["transcribe"]

\* what restart(task) is said to do
RestartEffect ==
    LET t == last.tid
        s == ServiceOf(tasks[t])
    IN  /\ Len(last.saves) >= 1
        /\ last.saves[1].row.status = "pending"
        /\ last.saves[1].row.progress = 0
        /\ last.saves[1].row.errorMsg = ""
        /\ last.saves[1].row.startTime = "NULL"
        /\ last.saves[1].row.endTime = "NULL"
        /\ last.trail = <<"PENDING", "RUNNING">>
        /\ tasks[t].status = "RUNNING"
        /\ tasks[t].startTime = last.clock
        /\ tasks[t].progress = 0 /\ tasks[t].errorMsg = "" /\ tasks[t].endTime = NoTime
        /\ t \in DOMAIN futures[s]
        /\ last.submitted = 1
        /\ futures[s][t] = NextRun(Cur, t) - 1
        /\ jobs[<<t, futures[s][t]>>].st = "running"
        /\ last.ret = "True"

DoneMsg(s, outcome) ==
    IF s # "transcribe" THEN DownloadDoneMsg
    ELSE IF outcome = "result" THEN TranscribeDoneMsg ELSE TranscribeSkippedMsg

\* the job of a running task returned
JobReturned == last.op = "jobDone" /\ last.preStatus = "RUNNING" /\ last.outcome # "failed"

SuccessEffect(msg) ==
    LET t == last.tid
    IN  /\ tasks[t].status = "SUCCESS"
        /\ tasks[t].progress = 100
        /\ tasks[t].endTime # NoTime /\ tasks[t].endTime = last.clock
        /\ Persisted
        /\ Cardinality(EventsOf("taskFinished")) = 1
        /\ \A i \in EventsOf("taskFinished") :
              /\ last.events[i].task = tasks[t]
              /\ last.events[i].success
              /\ last.events[i].msg = msg

C9_Failure ==
    (last.op = "jobDone" /\ last.preStatus = "RUNNING" /\ last.outcome = "failed") =>
        LET t == last.tid
        IN  /\ last.ret # "raised"
            /\ tasks[t].status = "FAILED"
            /\ tasks[t].endTime # NoTime /\ tasks[t].endTime = last.clock
            /\ last.err \in ErrMsgs /\ tasks[t].errorMsg = last.err
            /\ Persisted
            /\ Cardinality(EventsOf("taskFinished")) = 1
            /\ \A i \in EventsOf("taskFinished") :
                  /\ last.events[i].task = tasks[t]
                  /\ ~last.events[i].success
                  /\ last.events[i].msg = tasks[t].errorMsg

C9_Witness ==
    /\ last.op = "jobDone" /\ last.preStatus = "RUNNING" /\ last.outcome = "failed"
    /\ tasks[last.tid].errorMsg = "no such video" /\ last.saves[1].ok

\* C10: when the handler's writes succeed, each event it emits finds in the
\* store the row of the task exactly as the event carries it, and the row
\* read back has the task's status.
C10_PersistThenEmit ==
    (\A k \in 1..Len(last.saves) : last.saves[k].ok) =>
        \A i \in 1..Len(last.events) :
            /\ last.events[i].hasRow
            /\ last.events[i].row = toDict(last.events[i].task)
            /\ _row_to_task(last.events[i].row).status = last.events[i].task.status

C10_Witness ==
    /\ last.op = "createTask"
    /\ Len(last.saves) = 2 /\ last.saves[1].ok /\ last.saves[2].ok
    /\ EventsOf("taskCreated") # {} /\ EventsOf("taskUpdated") # {}

C12_LateProgressIgnored ==
    (last.op = "progress" /\ ~last.preIn) =>
        /\ last.keptTask
        /\ last.saves = <<>>
        /\ EventsOf("taskUpdated") = {}

\* C13: cancel on a task that is not in the in-flight map returns False and
\* does nothing: task, store and map are as before, nothing is saved or emitted.
C13_CancelNotInFlight ==
    (last.op = "cancel" /\ ~last.preIn) =>
        /\ last.ret = "False"
        /\ last.keptTask
        /\ last.keptMap
        /\ last.trail = <<>>
        /\ last.saves = <<>>
        /\ last.events = <<>>
        /\ last.submitted = 0

C13_Witness ==
    /\ last.op = "cancel" /\ ~last.preIn /\ last.ret = "False"
    /\ tasks[last.tid].status \in {"FAILED", "CANCELLED", "SUCCESS"}

\* C14: a task whose status is success, failed or cancelled has its endTime.
C14_TerminalHasEndTime ==
    \A t \in DOMAIN tasks : tasks[t].status \in Terminal => tasks[t].endTime # NoTime

C16_UnavailableRefuses ==
    (last.op \in {"start", "createTask"} /\ ~isAvailable(last.svc)) =>
        /\ last.ret = (IF last.op = "start" THEN "False" ELSE "None")
        /\ last.keptTask
        /\ last.saves = <<>>
        /\ last.submitted = 0

\* the input of the last createTask is one the service supports: a file that
\* exists, a Bilibili address or BV id, a YouTube address
Supported(svc, arg) ==
    LET bili == In("bilibili.com", arg) \/ (Len(arg) > 0 /\ arg[1] = "BV")
        yt == In("youtube.com", arg) \/ In("youtu.be", arg)
    IN  CASE svc = "transcribe" -> arg \in Files
          [] svc = "bilibili" -> bili
          [] svc = "youtube" -> yt
          [] OTHER -> bili \/ yt

\* C17: createTask with an empty or unsupported URL, or with a file that does
\* not exist, returns None, creates and saves no task, emits no taskCreated
\* and submits no job.
C17_InvalidInputRefused ==
    (last.op = "createTask" /\ ~Supported(last.svc, last.arg)) =>
        /\ last.ret = "None"
        /\ last.keptTask
        /\ last.saves = <<>>
        /\ EventsOf("taskCreated") = {}
        /\ last.submitted = 0

\* a save_task call of the last handler returned False
SaveFailed == \E k \in 1..Len(last.saves) : ~last.saves[k].ok

\* what each operation does in memory and emits, whatever save_task returns
OpEffect ==
    LET t == last.tid
        task == tasks[t]
        updated == Cardinality(EventsOf("taskUpdated"))
        started == /\ task.status = "RUNNING" /\ task.startTime = last.clock
                   /\ InFlight(Cur, t) /\ last.submitted = 1 /\ updated = 1
    IN  CASE last.op = "start" -> started /\ last.ret = "True"
          [] last.op = "createTask" ->
                started /\ last.ret = "Task" /\ Cardinality(EventsOf("taskCreated")) = 1
          [] last.op = "restart" ->
                /\ task.progress = 0 /\ task.errorMsg = "" /\ task.endTime = NoTime
                /\ IF StartAccepts(t) THEN started /\ last.ret = "True"
                   ELSE task.status = "PENDING" /\ last.ret = "False"
          [] last.op = "cancel" ->
                /\ task.status = "CANCELLED" /\ ~InFlight(Cur, t)
                /\ updated = 1 /\ last.ret = "True"
          [] last.op = "progress" -> task.progress \in ProgressVals /\ updated = 1
          [] last.op = "jobDone" ->
                /\ task.status = (IF last.outcome = "failed" THEN "FAILED" ELSE "SUCCESS")
                /\ task.endTime = last.clock
                /\ ~InFlight(Cur, t)
                /\ Cardinality(EventsOf("taskFinished")) = 1
          [] OTHER -> FALSE

\* C18: when save_task fails it returns False and raises nothing, the table is
\* as it was, and the operation that called it (start, progress, completion,
\* cancel, restart, createTask) still makes its change to the task in memory
\* and still emits its event, which carries the task as it is in memory.
C18_FailedSave ==
    SaveFailed =>
        /\ last.ret # "raised"
        /\ \A k \in 1..Len(last.saves) : ~last.saves[k].ok => last.saves[k].kept
        /\ last.saves[Len(last.saves)].row = toDict(tasks[last.tid])
        /\ OpEffect
        /\ last.events # <<>> => last.events[Len(last.events)].task = tasks[last.tid]

C18_Witness ==
    /\ last.op = "jobDone" /\ last.outcome = "failed" /\ SaveFailed
    /\ tasks[last.tid].status = "FAILED"
    /\ last.tid \in Ids(db) /\ Row(db, last.tid).status = "running"

\* C19: no operation of a service (createTask, start, progress, completion,
\* cancel, restart, cleanup) removes a row of the table: a row that was there
\* before is there after, unless the operation is the explicit delete. The job
\* of a task fails: the task's row says failed and has the errorMsg; restart
\* of a failed task keeps the row and starts the task.
C19_RecordKept ==
    /\ last.op # "delete" => last.rowsBefore \subseteq Ids(db)
    /\ (last.op = "jobDone" /\ last.outcome = "failed" /\ last.saves[1].ok) =>
          /\ last.tid \in Ids(db)
          /\ Row(db, last.tid).status = "failed"
          /\ Row(db, last.tid).errorMsg = last.err
    /\ (last.op = "restart" /\ last.preStatus = "FAILED" /\ StartAccepts(last.tid)) =>
          /\ last.ret = "True"
          /\ tasks[last.tid].status = "RUNNING"

C19_Witness ==
    /\ last.op = "restart" /\ last.preStatus = "FAILED" /\ last.ret = "True"
    /\ last.rowsBefore = {last.tid} /\ last.tid \in Ids(db)
    /\ ~last.saves[1].ok

\* the last of the handler's save_task calls that returned True
LastSaved == CHOOSE k \in 1..Len(last.saves) :
                /\ last.saves[k].ok
                /\ \A j \in 1..Len(last.saves) : last.saves[j].ok => j <= k

\* C20: whatever save_task calls have been made, for tasks of any service,
\* the table has at most one row per task id, and after a handler that saved,
\* the row of the task is the one saved last.
C20_OneRowPerId ==
    /\ \A k \in Ids(db) : Cardinality({p \in db : p[1] = k}) = 1
    /\ (\E k \in 1..Len(last.saves) : last.saves[k].ok) =>
          /\ last.saves[LastSaved].tid \in Ids(db)
          /\ \A p \in db : p[1] = last.saves[LastSaved].tid => p[2] = last.saves[LastSaved].row

C20_Witness ==
    /\ Len(last.saves) = 2 /\ last.saves[1].ok /\ last.saves[2].ok
    /\ last.saves[1].row # last.saves[2].row
    /\ last.rowsBefore = {last.tid}
    /\ Cardinality(db) = 1

Delegates(svc) == IF svc = "unified" THEN {"bilibili", "youtube"} ELSE {svc}

\* C22: after cleanup() of a service no task id is left in the in-flight map
\* of that service or of a sub-service it delegates to; the call waits for no
\* job (it submits and finishes none).
C22_CleanupEmptiesMaps ==
    last.op = "cleanup" =>
        /\ \A s \in Delegates(last.svc) : futures[s] = <<>>
        /\ last.submitted = 0
        /\ last.keptTask

\* C23: the completion of a job is never lost. A task that a start has left
\* running has a job whose completion is still to be delivered, also when the
\* job function was over before start registered the callbacks on the Future,
\* and the delivery of a completion to a running task ends status running.
C23_CompletionNotLost ==
    /\ \A t \in DOMAIN tasks :
          (tasks[t].status = "RUNNING" /\ \E j \in DOMAIN jobs : j[1] = t)
              => \E j \in DOMAIN jobs : j[1] = t /\ jobs[j].st = "running"
    /\ (last.op = "jobDone" /\ last.preStatus = "RUNNING")
          => tasks[last.tid].status \in {"SUCCESS", "FAILED"}

\* start returned true for a job that was over before the callbacks were
\* registered, and the task is success or failed
C23_Witness ==
    /\ last.op = "start" /\ last.ret = "True" /\ last.outcome # ""
    /\ jobs[<<last.tid, futures[ServiceOf(tasks[last.tid])][last.tid]>>].st = "done"
    /\ tasks[last.tid].status \in {"SUCCESS", "FAILED"}

\* C28: start records the in-flight entry before a completion callback of the
\* job it submitted can run: no taskFinished is emitted inside a start, and
\* every entry of an in-flight map is the Future of a job that has not completed
C28_EntryBeforeCallback ==
    /\ (last.op = "start" /\ last.ret = "True")
          => \A i \in 1..Len(last.events) : last.events[i].sig # "taskFinished"
    /\ \A s \in Services : \A t \in DOMAIN futures[s] :
          jobs[<<t, futures[s][t]>>].st = "running"

\* C24: a step that a job function executes on a worker thread emits no event,
\* calls no save_task, writes no Task field and changes no in-flight map
C24_OwningThreadOnly ==
    last.thread = "worker" =>
        /\ last.events = <<>>
        /\ last.saves = <<>>
        /\ last.keptTask
        /\ last.keptMap

\* C25: a task whose status is success has an outputPath or an outputPaths
\* that is not empty
C25_SuccessHasOutput ==
    \A t \in DOMAIN tasks :
        tasks[t].status = "SUCCESS" =>
            tasks[t].outputPath # "" \/ tasks[t].outputPaths.items # <<>>

\* C26: a task whose errorMsg is not empty has status failed
C26_ErrorMsgOnlyFailed ==
    \A t \in DOMAIN tasks : tasks[t].errorMsg # "" => tasks[t].status = "FAILED"

\* C27: the completion of a job of an earlier run, delivered while a later run
\* of the task is in flight, changes neither the in-flight map nor the task
\* (status, progress, endTime) nor its row
C27_OldRunCompletion ==
    (last.op = "jobDone" /\ last.preIn /\ last.run < NextRun(Cur, last.tid) - 1) =>
        /\ last.keptMap
        /\ last.keptTask

\* C29: start, restart and cancel of the UnifiedDownloadService return the
\* boolean of the sub-service that task.source selects, true exactly when the
\* operation took effect; for any other source they return false, save and
\* emit nothing (but the log) and leave task, store and maps as they are
C29_UnifiedForwards ==
    (last.svc = "unified" /\ last.op \in {"start", "restart", "cancel"}) =>
        IF source(tasks[last.tid]) \in {"bilibili", "youtube"}
        THEN /\ last.ret \in {"True", "False"}
             /\ last.ret = "False" => last.keptMap /\ last.submitted = 0
        ELSE /\ last.ret = "False"
             /\ last.keptTask /\ last.keptMap
             /\ last.saves = <<>> /\ last.submitted = 0
             /\ \A i \in 1..Len(last.events) : last.events[i].sig = "logGenerated"

\* the stored task of id k matches the filters of query q
Matches(k, q) ==
    /\ k \in Ids(db)
    /\ q.status # "" => get_task(db, k).task.status = q.status
    /\ q.type # "" => get_task(db, k).task.type = q.type

\* C30: list_tasks_by returns the stored tasks that match every filter, in the
\* order of the requested column and direction, without the first offset of
\* them and at most limit of them; a storage error gives the empty list
C30_ListTasksBy ==
    last.op = "list" =>
        LET q == last.arg
            r == last.ret
            M == {k \in Ids(db) : Matches(k, q)}
            rest == IF Cardinality(M) > q.offset THEN Cardinality(M) - q.offset ELSE 0
            n == IF q.limit # NoLimit /\ q.limit < rest THEN q.limit ELSE rest
        IN  IF last.outcome = "error" THEN r = <<>>
            ELSE \E f \in [1..Cardinality(M) -> M] :
                    /\ \A i, j \in DOMAIN f : i # j => f[i] # f[j]
                    /\ \A i, j \in DOMAIN f :
                          i < j => IF q.asc
                                   THEN get_task(db, f[i]).task[q.orderBy]
                                            <= get_task(db, f[j]).task[q.orderBy]
                                   ELSE get_task(db, f[i]).task[q.orderBy]
                                            >= get_task(db, f[j]).task[q.orderBy]
                    /\ Len(r) = n
                    /\ \A i \in 1..n : /\ r[i].id = f[q.offset + i]
                                        /\ r[i].task = get_task(db, r[i].id).task

\* C31: UnifiedDownloadService.createTask calls the createTask of exactly one
\* sub-service, that of the url's site: YouTube for a youtube.com or youtu.be
\* link, Bilibili for a bilibili.com link or a BV id; for any other url it calls
\* none, returns None and creates nothing
C31_UrlToItsSite ==
    (last.op = "createTask" /\ last.svc = "unified") =>
        IF In("youtube.com", last.arg) \/ In("youtu.be", last.arg)
        THEN last.calls = <<"youtube">>
        ELSE IF In("bilibili.com", last.arg) \/ (Len(last.arg) > 0 /\ last.arg[1] = "BV")
        THEN last.calls = <<"bilibili">>
        ELSE /\ last.calls = <<>>
             /\ last.ret = "None"
             /\ last.keptTask /\ last.keptMap
             /\ last.saves = <<>> /\ last.events = <<>> /\ last.submitted = 0

\* C32: a worker is in _active_workers while the requested operation has not
\* finished; its callback is called
\* at most once and never after stop() has been called; after
\* DatabaseService.cleanup() the list is empty
C32_ActiveWorkers ==
    /\ \A w \in WorkerIds :
          /\ sql.pc[w] \in {"started", "calling"} =>
                \E i \in 1..Len(sql._active_workers) : sql._active_workers[i] = w
          /\ sql.delivered[w] <= 1
          /\ ~sql.late[w]
    /\ last.op = "dbCleanup" => sql._active_workers = <<>>
====
